---- MODULE Spec2Model ----
(***************************************************************************)
(* Model of ckanext/datastore/logic/action.py: the DataStore action layer. *)
(*                                                                         *)
(* Every handler is a function from the stores it finds and its request to *)
(* a result: how it ended, what it returned, the collaborator calls it     *)
(* made (in order) and the stores it leaves.  One action per handler       *)
(* applies that function to the current stores; the action is the whole    *)
(* handler.  The collaborators (Table Engine ckanext.datastore.db,         *)
(* Resource Registry, Access Policy, Search Index, Import Trigger) are     *)
(* modelled by their effect on the stores.                                 *)
(***************************************************************************)
EXTENDS Integers, Sequences, FiniteSets, TLC

\* ------------------------------------------------------------------ bounds
\* number of resources that resource_create can add
MaxNew == 1
\* record ids a table may hold: 1..MaxRec
MaxRec == 1

\* ------------------------------------------------------------------- names
\* identifiers are sequences of characters, so that name rules can be applied
R1 == <<"r", "1">>
A1 == <<"a", "1">>
BadAlias == <<"_", "a">>
P1 == <<"p", "1">>
P2 == <<"p", "2">>
TableMetadata ==
    <<"_","t","a","b","l","e","_","m","e","t","a","d","a","t","a">>
NoName == << >>
Null == << >>

Digit(i) == IF i = 1 THEN "1" ELSE IF i = 2 THEN "2" ELSE "3"
NewIds == { <<"n", Digit(i)>> : i \in 1..MaxNew }
ResIds == {R1} \cup NewIds
Recs == 1..MaxRec

\* variant: a resource id among the reserved identifiers
WHITELISTED_RESOURCES_wide == {TableMetadata, R1}
WHITELISTED_RESOURCES == {TableMetadata}

\* --------------------------------------------------------------- variables
VARIABLES
    resources,       \* Resource Registry: id -> [url_type, package_id, datastore_active]
    packages,        \* Resource Registry: package id -> [private]
    catalog,         \* Metadata Catalog "_table_metadata": set of [name, alias_of]
    rows,            \* Table Engine: table name -> set of record ids
    private_tables,  \* Table Engine: tables revoked from the read-only role
    solr,            \* Search Index: indexed resource sub-documents, id -> datastore_active
    datapusher_jobs, \* Import Trigger: submitted resource ids
    config,          \* [legacy_mode, datapusher] : read_url missing / plugin loaded
    acl,             \* Access Policy: the keys on which the caller is allowed
    other_extra,     \* Resource Registry: another key of the extras of R1
    pc,              \* overlapping requests: where each of them stands
    resource_seen,   \* overlapping requests: datastore_active of the resource object read
    extras_seen      \* overlapping requests: the extras each synchronizer call has read

vars == <<resources, packages, catalog, rows, private_tables, solr,
          datapusher_jobs, config, acl, other_extra, pc, resource_seen,
          extras_seen>>

\* the stores a request works on, as one record
Stores == [resources |-> resources, catalog |-> catalog, rows |-> rows,
           private_tables |-> private_tables, solr |-> solr,
           datapusher_jobs |-> datapusher_jobs]

\* ----------------------------------------------------------- collaborators
\* one collaborator call of a request
Call(fn, act, arg, conn) == [fn |-> fn, act |-> act, arg |-> arg, conn |-> conn]

\* what a handler leaves behind: how it ended, what it returned, the
\* collaborator calls it made and the stores after it
NoResult == [records |-> {}, total |-> 0]
Result(outcome, result, calls, st) ==
    [outcome |-> outcome, result |-> result, calls |-> calls, st |-> st]

\* request filters: absent, a mapping (kv = the record ids it matches; {} is
\* the empty mapping) or a value that is no mapping
NoFilters == [kind |-> "absent", kv |-> {}]
EmptyFilters == [kind |-> "dict", kv |-> {}]
BadFilters == [kind |-> "other", kv |-> {}]
FilterPool == {NoFilters, EmptyFilters, BadFilters}
              \cup {[kind |-> "dict", kv |-> {k}] : k \in Recs}

\* Python truth value of data_dict.get('filters')
Truthy(filters) == filters.kind = "dict" /\ filters.kv # {}

\* p.toolkit.check_access: raises unless the policy allows the key
check_access(key) == key \in acl

\* SELECT ... FROM "_table_metadata" WHERE name = :id
CatalogRows(st, id) == {r \in st.catalog : r.name = id}
\* SELECT 1 FROM "_table_metadata" WHERE name = :id AND alias_of IS NULL
RealRows(st, id) == {r \in st.catalog : r.name = id /\ r.alias_of = Null}

\* db._is_valid_table_name
HasChar(name, c) == \E i \in 1..Len(name) : name[i] = c
is_valid_table_name(name) ==
    /\ Len(name) > 0
    /\ ~HasChar(name, "%")
    /\ ~HasChar(name, "\"")
    /\ name[1] # "_"
    /\ name[1] # " " /\ name[Len(name)] # " "

\* datastore_helpers.is_single_statement: sql is a sequence of tokens, ";"
\* separates statements, "s" is statement text, " " is white space
Statements(sql) ==
    LET RECURSIVE cnt(_, _)
        cnt(i, open) ==
            IF i > Len(sql) THEN (IF open THEN 1 ELSE 0)
            ELSE IF sql[i] = ";" THEN (IF open THEN 1 ELSE 0) + cnt(i + 1, FALSE)
            ELSE IF sql[i] = "s" THEN cnt(i + 1, TRUE)
            ELSE cnt(i + 1, open)
    IN cnt(1, FALSE)
is_single_statement(sql) == Statements(sql) <= 1

\* resource.extras.get('datastore_active')
ActiveOf(st, id) ==
    IF id \in DOMAIN st.resources THEN st.resources[id].datastore_active ELSE "absent"

\* ------------------------------------------------------------ Table Engine
Put(f, k, v) == [x \in DOMAIN f \cup {k} |-> IF x = k THEN v ELSE f[x]]
Drop(f, k) == [x \in DOMAIN f \ {k} |-> f[x]]

AliasesOf(st, t) == {r \in st.catalog : r.alias_of = t}
IsTable(st, t) == RealRows(st, t) # {}
StRows(st, t) == IF t \in DOMAIN st.rows THEN st.rows[t] ELSE {}

\* request aliases: not given, or a set of names
NoAliases == [given |-> FALSE, names |-> {}]
AliasPool == {NoAliases, [given |-> TRUE, names |-> {A1}],
              [given |-> TRUE, names |-> {BadAlias}]}

\* request records: none, one well-formed record, or malformed data
NoRecords == [bad |-> FALSE, recs |-> {}]
RecordPool == {NoRecords, [bad |-> TRUE, recs |-> {}]}
              \cup {[bad |-> FALSE, recs |-> {k}] : k \in Recs}

\* db.create raises (InvalidDataError / ValidationError) and rolls back:
\* malformed data, a record whose key is already in the table, or an alias
\* name that is already taken by something else than an alias of this table
db_create_fails(st, rid, aliases, records) ==
    \/ records.bad
    \/ records.recs \cap StRows(st, rid) # {}
    \/ \E a \in aliases.names : \E r \in st.catalog : r.name = a /\ r.alias_of # rid

\* db.create: creates the table if needed, replaces its aliases when aliases
\* are given, appends the records, revokes read access when private
db_create(st, rid, aliases, records, private) ==
    LET kept == IF aliases.given THEN st.catalog \ AliasesOf(st, rid) ELSE st.catalog
    IN [st EXCEPT
          !.catalog = kept \cup {[name |-> rid, alias_of |-> Null]}
                           \cup {[name |-> a, alias_of |-> rid] : a \in aliases.names},
          !.rows = Put(st.rows, rid, StRows(st, rid) \cup records.recs),
          !.private_tables = IF private THEN @ \cup {rid} ELSE @]

\* db.create returns the payload it was given
db_create_returns(payload) == payload

\* db.upsert raises: malformed data, insert of an existing key, update of a
\* missing key
db_upsert_fails(st, rid, method, records) ==
    \/ records.bad
    \/ method = "insert" /\ records.recs \cap StRows(st, rid) # {}
    \/ method = "update" /\ ~(records.recs \subseteq StRows(st, rid))

db_upsert(st, rid, method, records) ==
    [st EXCEPT !.rows = Put(st.rows, rid, StRows(st, rid) \cup records.recs)]

\* db.delete: without a 'filters' key the table and its views are dropped,
\* with one only the matching rows go (the empty mapping matches every row)
db_delete(st, rid, filters) ==
    IF filters.kind = "absent"
    THEN [st EXCEPT
            !.catalog = {r \in @ : r.name # rid /\ r.alias_of # rid},
            !.rows = Drop(@, rid),
            !.private_tables = @ \ {rid}]
    ELSE [st EXCEPT
            !.rows = Put(@, rid,
                IF filters.kv = {} THEN {} ELSE StRows(st, rid) \ filters.kv)]

\* db.search: the matching records of the table (or of the table a view
\* selects from) and their number
db_search(st, name, filters) ==
    LET t == IF IsTable(st, name) THEN name
             ELSE IF CatalogRows(st, name) # {}
                  THEN (CHOOSE r \in CatalogRows(st, name) : TRUE).alias_of
                  ELSE NoName
        found == IF Truthy(filters) THEN StRows(st, t) \cap filters.kv ELSE StRows(st, t)
    IN [records |-> found, total |-> Cardinality(found)]

db_make_private(st, rid) == [st EXCEPT !.private_tables = @ \cup {rid}]
db_make_public(st, rid) == [st EXCEPT !.private_tables = @ \ {rid}]

\* ------------------------------------------------ Active-Flag Synchronizer
\* variant: the package is re-indexed whether or not the index holds the
\* resource
set_datastore_active_flag_index_always(st, rid, flag, commit_ok) ==
    LET pkg == st.resources[rid].package_id
        commit == <<Call("Session.commit", "-", rid, "-")>>
    IN IF ~commit_ok
       THEN [ok |-> FALSE, st |-> st, calls |-> commit]
       ELSE [ok |-> TRUE,
             st |-> [st EXCEPT !.resources[rid].datastore_active = flag,
                               !.solr = Put(@, rid, flag)],
             calls |-> commit \o <<Call("solr.query", "-", pkg, "-"),
                                   Call("index_package", "-", pkg, "-")>>]

\* variant: the failure of the commit is swallowed and the call goes on
set_datastore_active_flag_swallowed(st, rid, flag, commit_ok) ==
    LET indexed == rid \in DOMAIN st.solr
        pkg == st.resources[rid].package_id
    IN [ok |-> TRUE,
        st |-> IF commit_ok
               THEN [st EXCEPT !.resources[rid].datastore_active = flag]
               ELSE st,
        calls |-> <<Call("Session.commit", "-", rid, "-"),
                    Call("solr.query", "-", pkg, "-")>>
                  \o (IF indexed THEN <<Call("index_package", "-", pkg, "-")>>
                      ELSE << >>)]

\* set_datastore_active_flag: patch the extras of the resource, commit, then
\* patch and re-index the package document if the index holds the resource;
\* a commit that raises (commit_ok = FALSE) ends the call there, and the
\* update of the extras is not committed
set_datastore_active_flag(st, rid, flag, commit_ok) ==
    LET st1 == [st EXCEPT !.resources[rid].datastore_active = flag]
        indexed == rid \in DOMAIN st.solr
        pkg == st.resources[rid].package_id
        commit == <<Call("Session.commit", "-", rid, "-")>>
    IN IF ~commit_ok
       THEN [ok |-> FALSE, st |-> st, calls |-> commit]
       ELSE [ok |-> TRUE,
             st |-> IF indexed THEN [st1 EXCEPT !.solr[rid] = flag] ELSE st1,
             calls |-> commit \o <<Call("solr.query", "-", pkg, "-")>>
                       \o (IF indexed THEN <<Call("index_package", "-", pkg, "-")>>
                           ELSE << >>)]

\* --------------------------------------------------------------------- Init
\* the keys the Access Policy decides on: resource ids, an alias name, the
\* package of a resource specification, and no id (search_sql)
PolicyKeys == ResIds \cup {A1, P2, NoName}
\* the caller's rights: everything, nothing, everything but R1, everything
\* but the resources created later
PolicyPool == {PolicyKeys, {}, PolicyKeys \ {R1}, PolicyKeys \ NewIds}

\* the requests that can overlap: a create, a delete and another writer of
\* the resource
Procs == {"create", "delete", "writer"}
\* extras not read yet
NoExtras == [datastore_active |-> "absent", other |-> "old"]

Init ==
    /\ resources = [id \in {R1} |->
            [url_type |-> "upload", package_id |-> P1, datastore_active |-> "absent"]]
    /\ packages = [p \in {P1, P2} |-> [private |-> (p = P1)]]
    /\ catalog = {[name |-> TableMetadata, alias_of |-> Null]}
    /\ rows = << >>
    /\ private_tables = {}
    /\ solr = [id \in {R1} |-> "absent"]
    /\ datapusher_jobs = {}
    /\ config \in [legacy_mode : BOOLEAN, datapusher : BOOLEAN]
    /\ acl \in PolicyPool
    /\ other_extra = "old"
    /\ pc = [p \in Procs |-> "none"]
    /\ resource_seen = "absent"
    /\ extras_seen = [p \in Procs |-> NoExtras]

\* ----------------------------------------------------------------- handlers
\* the stores become st
Store(st) ==
    /\ resources' = st.resources
    /\ catalog' = st.catalog
    /\ rows' = st.rows
    /\ private_tables' = st.private_tables
    /\ solr' = st.solr
    /\ datapusher_jobs' = st.datapusher_jobs
    /\ UNCHANGED <<packages, config, acl>>

\* the stores after a handler that ran alone
Finish(r) ==
    /\ Store(r.st)
    /\ UNCHANGED <<other_extra, pc, resource_seen, extras_seen>>

\* the connection string each handler selects (the config key it reads)
create_connection == "write_url"
upsert_connection == "write_url"
delete_connection == "write_url"
search_connection == "write_url"
privacy_connection == "write_url"
\* variant: datastore_info selecting the write-capable connection string
info_connection_W == "write_url"
info_connection == "read_url"
\* variant: a connection_url of the payload is kept (setdefault)
search_sql_connection_kept(payload_url) ==
    IF payload_url # "none" THEN payload_url ELSE "read_url"
\* datastore_search_sql, line 498: whatever the payload carried is overwritten
search_sql_connection(payload_url) == "read_url"

\* the lookup in "_table_metadata", a query on the engine of a connection
Lookup(rid, conn) == Call("_table_metadata", "-", rid, conn)

\* variant: a gate that does not look at url_type
check_read_only_any(st, rid) ==
    IF rid \notin DOMAIN st.resources THEN "not_found" ELSE "ok"
\* _check_read_only: "ok", or the exception it raises
check_read_only(st, rid) ==
    IF rid \notin DOMAIN st.resources THEN "not_found"
    ELSE IF st.resources[rid].url_type # "datastore" THEN "read_only"
    ELSE "ok"

\* variant: the flag is set only when it is False (a missing key is skipped)
create_sets_flag_false_only(active) == active = "false"
\* datastore_create, line 148: the flag is set unless it is True already
create_sets_flag(active) == active # "true"

\* datastore_create, lines 125-157: alias validation, privacy, db.create, flag
\* variant: the privacy of the owning package is ignored
create_private_never(st, rid) == FALSE

\* data_dict['private'] = True: the read/write split is configured and the
\* package that owns the resource is private
create_private(st, rid) ==
    /\ ~config.legacy_mode
    /\ packages[st.resources[rid].package_id].private

\* the keys of the payload handed to db.create
create_payload(private) ==
    {"resource_id", "connection_url"} \cup (IF private THEN {"private"} ELSE {})

\* the keys of the result of datastore_create: those db.create returned
\* without id, private and connection_url
create_returns(keys) == keys \ {"id", "private", "connection_url"}

create_table(st, calls, rid, aliases, records, commit_ok) ==
    LET known == rid \in DOMAIN st.resources
        private == create_private(st, rid)
        created == [records |-> {}, total |-> 0,
                    keys |-> create_returns(db_create_returns(create_payload(private)))]
        dbc == calls \o <<Call("db.create", IF private THEN "private" ELSE "-",
                               rid, create_connection)>>
        st2 == db_create(st, rid, aliases, records, private)
        sync == set_datastore_active_flag(st2, rid, "true", commit_ok)
    IN IF \E a \in aliases.names : ~is_valid_table_name(a)
       THEN Result("validation", NoResult, calls, st)
       ELSE IF ~config.legacy_mode /\ ~known
       THEN Result("error", NoResult, calls, st)
       ELSE IF db_create_fails(st, rid, aliases, records)
       THEN Result("validation", NoResult, dbc, st)
       ELSE IF ~known
       THEN Result("error", NoResult, dbc, st2)
       ELSE IF create_sets_flag(st.resources[rid].datastore_active)
       THEN Result(IF sync.ok THEN "ok" ELSE "commit_failed",
                   IF sync.ok THEN created ELSE NoResult,
                   dbc \o sync.calls, sync.st)
       ELSE Result("ok", created, dbc, st2)

\* variant: after the submission the handler goes on to create the table
create_from_resource_no_return(st, calls, q) ==
    LET made == [st EXCEPT
                   !.resources = Put(@, q.nid, [url_type |-> "none", package_id |-> P2,
                                                datastore_active |-> "absent"]),
                   !.solr = IF q.indexed THEN Put(@, q.nid, "absent") ELSE @]
        c1 == calls \o <<Call("resource_create", "-", q.nid, "-")>>
        typed == [made EXCEPT !.resources[q.nid].url_type = "datastore"]
    IN IF q.url /\ ~config.datapusher
       THEN Result("validation", NoResult, c1, made)
       ELSE IF q.url
       THEN create_table([made EXCEPT !.datapusher_jobs = @ \cup {q.nid}],
                         c1 \o <<Call("datapusher_submit", "-", q.nid, "-")>>,
                         q.nid, q.aliases, q.records, q.commit_ok)
       ELSE create_table(typed, c1 \o <<Call("resource_update", "-", q.nid, "-")>>,
                         q.nid, q.aliases, q.records, q.commit_ok)

\* datastore_create, lines 94-119: the resource is created first; with a url
\* the import is handed to the datapusher and nothing else happens
create_from_resource(st, calls, q) ==
    LET made == [st EXCEPT
                   !.resources = Put(@, q.nid, [url_type |-> "none", package_id |-> P2,
                                                datastore_active |-> "absent"]),
                   !.solr = IF q.indexed THEN Put(@, q.nid, "absent") ELSE @]
        c1 == calls \o <<Call("resource_create", "-", q.nid, "-")>>
        typed == [made EXCEPT !.resources[q.nid].url_type = "datastore"]
    IN IF q.url
       THEN IF ~config.datapusher
            THEN Result("validation", NoResult, c1, made)
            ELSE Result("ok", NoResult,
                        c1 \o <<Call("datapusher_submit", "-", q.nid, "-")>>,
                        [made EXCEPT !.datapusher_jobs = @ \cup {q.nid}])
       ELSE create_table(typed, c1 \o <<Call("resource_update", "-", q.nid, "-")>>,
                         q.nid, q.aliases, q.records, q.commit_ok)

\* variant: the gate is applied whatever force says
create_by_id_gate_always(st, calls, q) ==
    LET gate == check_read_only(st, q.rid)
        c1 == calls \o <<Call("resource_show", "-", q.rid, "-")>>
    IN IF gate # "ok" THEN Result(gate, NoResult, c1, st)
       ELSE create_table(st, c1, q.rid, q.aliases, q.records, q.commit_ok)

\* datastore_create, lines 120-123: the Read-Only Gate unless force
create_by_id(st, calls, q) ==
    LET gate == check_read_only(st, q.rid)
        c1 == calls \o <<Call("resource_show", "-", q.rid, "-")>>
    IN IF ~q.force /\ gate # "ok" THEN Result(gate, NoResult, c1, st)
       ELSE create_table(st, IF q.force THEN calls ELSE c1, q.rid, q.aliases, q.records, q.commit_ok)

\* variant: the both / neither check is left out, a request with both is
\* taken as one with a resource specification
create_result_unchecked(st, q) ==
    LET hasRes == q.form \in {"spec", "both"}
        hasId == q.form \in {"id", "both"}
        key == IF hasId THEN q.rid ELSE P2
        ca == <<Call("check_access", "datastore_create", key, "-")>>
    IN IF ~q.valid THEN Result("validation", NoResult, << >>, st)
       ELSE IF ~check_access(key) THEN Result("not_authorized", NoResult, ca, st)
       ELSE IF ~hasRes /\ ~hasId THEN Result("validation", NoResult, ca, st)
       ELSE IF hasRes THEN create_from_resource(st, ca, q)
       ELSE create_by_id(st, ca, q)

\* datastore_create
create_result(st, q) ==
    LET hasRes == q.form \in {"spec", "both"}
        hasId == q.form \in {"id", "both"}
        key == IF hasId THEN q.rid ELSE P2
        ca == <<Call("check_access", "datastore_create", key, "-")>>
    IN IF ~q.valid THEN Result("validation", NoResult, << >>, st)
       ELSE IF ~check_access(key) THEN Result("not_authorized", NoResult, ca, st)
       ELSE IF hasRes /\ hasId THEN Result("validation", NoResult, ca, st)
       ELSE IF ~hasRes /\ ~hasId THEN Result("validation", NoResult, ca, st)
       ELSE IF hasRes THEN create_from_resource(st, ca, q)
       ELSE create_by_id(st, ca, q)

\* a fresh resource id: in no store yet
Fresh(st, nid) == nid \notin DOMAIN st.resources /\ CatalogRows(st, nid) = {}

\* the create requests: every combination of inputs the handler can tell
\* apart (an input a branch never reads is fixed)
CreateRequests ==
    LET dflt == [valid |-> TRUE, form |-> "id", rid |-> R1, nid |-> <<"n", "1">>,
                 url |-> FALSE, indexed |-> FALSE, force |-> FALSE,
                 aliases |-> NoAliases, records |-> NoRecords, commit_ok |-> TRUE]
    IN {[dflt EXCEPT !.valid = FALSE]}
       \cup {[dflt EXCEPT !.form = f, !.rid = rid] :
                f \in {"both", "neither"}, rid \in ResIds}
       \cup {[dflt EXCEPT !.form = "id", !.rid = rid, !.force = force,
                          !.aliases = aliases, !.records = records] :
                rid \in ResIds, force \in BOOLEAN,
                aliases \in AliasPool, records \in RecordPool}
       \cup {[dflt EXCEPT !.form = "spec", !.nid = nid, !.url = TRUE] : nid \in NewIds}
       \cup {[dflt EXCEPT !.form = "spec", !.nid = nid, !.indexed = indexed,
                          !.aliases = aliases, !.records = records] :
                nid \in NewIds, indexed \in BOOLEAN,
                aliases \in AliasPool, records \in RecordPool}

\* a request the stores can take: resource_create hands out a fresh id
CanCreate(st, q) == q.form = "spec" => Fresh(st, q.nid)

datastore_create(q) == CanCreate(Stores, q) /\ Finish(create_result(Stores, q))

\* variant: the existence check without "alias_of IS NULL"
res_exists_any_row(st, rid) == Cardinality(CatalogRows(st, rid)) > 0
\* variant: the existence check accepts an empty result (rowcount >= 0)
res_exists_any(st, rid) == Cardinality(RealRows(st, rid)) >= 0
\* datastore_upsert lines 212-216, datastore_delete lines 339-343: the
\* resource id must name a real (non-alias) table of the Metadata Catalog
res_exists(st, rid) == Cardinality(RealRows(st, rid)) > 0

\* datastore_upsert
upsert_result(st, q) ==
    LET ca == <<Call("check_access", "datastore_upsert", q.rid, "-")>>
        gate == check_read_only(st, q.rid)
        c1 == IF q.force THEN ca ELSE ca \o <<Call("resource_show", "-", q.rid, "-")>>
        c2 == c1 \o <<Lookup(q.rid, upsert_connection)>>
        c3 == c2 \o <<Call("db.upsert", q.method, q.rid, upsert_connection)>>
    IN IF ~q.valid THEN Result("validation", NoResult, << >>, st)
       ELSE IF ~check_access(q.rid) THEN Result("not_authorized", NoResult, ca, st)
       ELSE IF ~q.force /\ gate # "ok" THEN Result(gate, NoResult, c1, st)
       ELSE IF ~res_exists(st, q.rid) THEN Result("not_found", NoResult, c2, st)
       ELSE IF db_upsert_fails(st, q.rid, q.method, q.records)
       THEN Result("validation", NoResult, c3, st)
       ELSE Result("ok", NoResult, c3, db_upsert(st, q.rid, q.method, q.records))

\* the identifiers requests name: resource ids and an alias name
ReqIds == ResIds \cup {A1}
Methods == {"upsert", "insert", "update"}

UpsertRequests ==
    [valid : BOOLEAN, rid : ReqIds, force : BOOLEAN, method : Methods,
     records : RecordPool]

datastore_upsert(q) == q \in UpsertRequests /\ Finish(upsert_result(Stores, q))

\* datastore_delete, lines 356-357: the flag is reset after a delete without
\* (truthy) filters when it is True
delete_resets_flag(filters, active) == ~Truthy(filters) /\ active = "true"

\* datastore_delete
delete_result(st, q) ==
    LET ca == <<Call("check_access", "datastore_delete", q.rid, "-")>>
        gate == check_read_only(st, q.rid)
        c1 == IF q.force THEN ca ELSE ca \o <<Call("resource_show", "-", q.rid, "-")>>
        c2 == c1 \o <<Lookup(q.rid, delete_connection)>>
        c3 == c2 \o <<Call("db.delete",
                           IF q.filters.kind = "absent" THEN "drop" ELSE "rows",
                           q.rid, delete_connection)>>
        st2 == db_delete(st, q.rid, q.filters)
        known == q.rid \in DOMAIN st.resources
        sync == set_datastore_active_flag(st2, q.rid, "false", q.commit_ok)
    IN IF q.filters.kind = "other" THEN Result("validation", NoResult, << >>, st)
       ELSE IF ~q.valid THEN Result("validation", NoResult, << >>, st)
       ELSE IF ~check_access(q.rid) THEN Result("not_authorized", NoResult, ca, st)
       ELSE IF ~q.force /\ gate # "ok" THEN Result(gate, NoResult, c1, st)
       ELSE IF ~res_exists(st, q.rid) THEN Result("not_found", NoResult, c2, st)
       ELSE IF ~Truthy(q.filters) /\ ~known THEN Result("error", NoResult, c3, st2)
       ELSE IF known /\ delete_resets_flag(q.filters, st.resources[q.rid].datastore_active)
       THEN Result(IF sync.ok THEN "ok" ELSE "commit_failed", NoResult,
                   c3 \o sync.calls, sync.st)
       ELSE Result("ok", NoResult, c3, st2)

DeleteRequests ==
    [valid : BOOLEAN, rid : ReqIds, force : BOOLEAN, filters : FilterPool,
     commit_ok : {TRUE}]

datastore_delete(q) == q \in DeleteRequests /\ Finish(delete_result(Stores, q))

\* variant: no substitution, the identifier of the request is kept
search_resolve_kept(st, rid) == rid
\* variant: the substitute is read from a lookup restricted to real tables
search_resolve_real(st, rid) == IF RealRows(st, rid) # {} THEN rid ELSE NoName
\* datastore_search, lines 446-450: an alias is replaced by the real table id
search_resolve(st, rid) ==
    LET alias_of == (CHOOSE r \in CatalogRows(st, rid) : TRUE).alias_of
    IN IF alias_of # Null THEN alias_of ELSE rid

\* datastore_search
search_result(st, q) ==
    LET c1 == <<Lookup(q.rid, search_connection)>>
        id == search_resolve(st, q.rid)
        ca == c1 \o <<Call("check_access", "datastore_search", id, "-")>>
    IN IF ~q.valid THEN Result("validation", NoResult, << >>, st)
       ELSE IF CatalogRows(st, q.rid) = {} THEN Result("not_found", NoResult, c1, st)
       ELSE IF q.rid \in WHITELISTED_RESOURCES
       THEN Result("ok", db_search(st, q.rid, q.filters),
                   c1 \o <<Call("db.search", "-", q.rid, search_connection)>>, st)
       ELSE IF ~check_access(id) THEN Result("not_authorized", NoResult, ca, st)
       ELSE Result("ok", db_search(st, id, q.filters),
                   ca \o <<Call("db.search", "-", id, search_connection)>>, st)

SearchRequests ==
    [valid : BOOLEAN, rid : ReqIds \cup {TableMetadata},
     filters : FilterPool \ {BadFilters}]

datastore_search(q) == q \in SearchRequests /\ Finish(search_result(Stores, q))

\* sql inputs: no 'sql' key (<< >>), one statement, one statement with a
\* closing separator, two statements, two statements with white space
NoSql == << >>
SqlPool == {NoSql, <<"s">>, <<"s", ";">>, <<"s", ";", "s">>,
            <<"s", ";", " ", "s", ";">>}
\* a connection_url the caller put into the payload
PayloadUrls == {"none", "write_url"}

\* variant: the Access Policy is asked before the statement check
search_sql_result_access_first(st, q) ==
    LET ca == <<Call("check_access", "datastore_search_sql", NoName, "-")>>
        conn == search_sql_connection(q.payload_url)
    IN IF q.sql = NoSql THEN Result("validation", NoResult, << >>, st)
       ELSE IF ~check_access(NoName) THEN Result("not_authorized", NoResult, ca, st)
       ELSE IF ~is_single_statement(q.sql) THEN Result("validation", NoResult, ca, st)
       ELSE IF config.legacy_mode /\ conn = "read_url"
       THEN Result("error", NoResult, ca, st)
       ELSE Result("ok", NoResult, ca \o <<Call("db.search_sql", "-", NoName, conn)>>, st)

\* datastore_search_sql
search_sql_result(st, q) ==
    LET ca == <<Call("check_access", "datastore_search_sql", NoName, "-")>>
        conn == search_sql_connection(q.payload_url)
    IN IF q.sql = NoSql THEN Result("validation", NoResult, << >>, st)
       ELSE IF ~is_single_statement(q.sql) THEN Result("validation", NoResult, << >>, st)
       ELSE IF ~check_access(NoName) THEN Result("not_authorized", NoResult, ca, st)
       ELSE IF config.legacy_mode /\ conn = "read_url"
       THEN Result("error", NoResult, ca, st)
       ELSE Result("ok", NoResult, ca \o <<Call("db.search_sql", "-", NoName, conn)>>, st)

SqlRequests == [sql : SqlPool, payload_url : PayloadUrls]

datastore_search_sql(q) == q \in SqlRequests /\ Finish(search_sql_result(Stores, q))

\* datastore_info
info_result(st, q) ==
    LET ca == <<Call("check_access", "datastore_info", q.rid, "-")>>
        c1 == ca \o <<Call("resource_show", "-", q.rid, "-")>>
        c2 == c1 \o <<Lookup(q.rid, info_connection)>>
    IN IF ~check_access(q.rid) THEN Result("not_authorized", NoResult, ca, st)
       ELSE IF q.rid \notin DOMAIN st.resources THEN Result("not_found", NoResult, c1, st)
       ELSE IF config.legacy_mode THEN Result("error", NoResult, c1, st)
       ELSE IF RealRows(st, q.rid) = {} THEN Result("not_found", NoResult, c2, st)
       ELSE Result("ok", [records |-> {}, total |-> Cardinality(StRows(st, q.rid))],
                   c2 \o <<Call("db.execute", "-", q.rid, info_connection)>>, st)

InfoRequests == [rid : ReqIds]

datastore_info(q) == q \in InfoRequests /\ Finish(info_result(Stores, q))

\* variant: only the Metadata Catalog is asked
resource_exists_catalog_only(st, rid) == RealRows(st, rid) # {}
\* _resource_exists: known to the Resource Registry and a real table
resource_exists(st, rid) == rid \in DOMAIN st.resources /\ RealRows(st, rid) # {}

\* datastore_make_private / datastore_make_public
privacy_result(st, q) ==
    LET c1 == <<Call("Resource.get", "-", q.rid, "-")>>
              \o (IF q.rid \in DOMAIN st.resources
                  THEN <<Lookup(q.rid, privacy_connection)>> ELSE << >>)
        ca == c1 \o <<Call("check_access", "datastore_change_permissions", q.rid, "-")>>
        c3 == ca \o <<Call(IF q.op = "make_private" THEN "db.make_private"
                           ELSE "db.make_public", "-", q.rid, privacy_connection)>>
    IN IF ~q.has_id THEN Result("validation", NoResult, << >>, st)
       ELSE IF ~resource_exists(st, q.rid) THEN Result("not_found", NoResult, c1, st)
       ELSE IF ~check_access(q.rid) THEN Result("not_authorized", NoResult, ca, st)
       ELSE Result("ok", NoResult, c3,
                   IF q.op = "make_private" THEN db_make_private(st, q.rid)
                   ELSE db_make_public(st, q.rid))

PrivacyRequests(op) == [op : {op}, has_id : BOOLEAN, rid : ReqIds]

datastore_make_private(q) == q.op = "make_private" /\ Finish(privacy_result(Stores, q))
datastore_make_public(q) == q.op = "make_public" /\ Finish(privacy_result(Stores, q))

\* --------------------------------------------------------------------- Next
Next ==
    \/ \E q \in CreateRequests : datastore_create(q)
    \/ \E q \in UpsertRequests : datastore_upsert(q)
    \/ \E q \in DeleteRequests : datastore_delete(q)
    \/ \E q \in SearchRequests : datastore_search(q)
    \/ \E q \in SqlRequests : datastore_search_sql(q)
    \/ \E q \in InfoRequests : datastore_info(q)
    \/ \E q \in PrivacyRequests("make_private") : datastore_make_private(q)
    \/ \E q \in PrivacyRequests("make_public") : datastore_make_public(q)

Spec == Init /\ [][Next]_vars

\* ---------------------------------------------------------------------------
\* Requests whose metadata commit fails: model.Session.commit() raises inside
\* set_datastore_active_flag
\* ---------------------------------------------------------------------------
CommitFails(q) == [q EXCEPT !.commit_ok = FALSE]

datastore_create_commit_fails(q) ==
    /\ CanCreate(Stores, q)
    /\ create_result(Stores, CommitFails(q)).outcome = "commit_failed"
    /\ Finish(create_result(Stores, CommitFails(q)))

datastore_delete_commit_fails(q) ==
    /\ delete_result(Stores, CommitFails(q)).outcome = "commit_failed"
    /\ Finish(delete_result(Stores, CommitFails(q)))

FailNext ==
    \/ Next
    \/ \E q \in CreateRequests : datastore_create_commit_fails(q)
    \/ \E q \in DeleteRequests : datastore_delete_commit_fails(q)

FailSpec == Init /\ [][FailNext]_vars

\* ------------------------------------------------------ overlapping requests
\* datastore_create({resource_id: R1, force: True}), a filter-less
\* datastore_delete({resource_id: R1, force: True}) and another writer of the
\* extras of R1 run at the same time; each step is one statement that reads
\* or writes a store

\* a consistent state: R1 is active exactly if its table exists
ConcInit ==
    /\ config \in [legacy_mode : BOOLEAN, datapusher : BOOLEAN]
    /\ acl = PolicyKeys
    /\ packages = [p \in {P1, P2} |-> [private |-> (p = P1)]]
    /\ datapusher_jobs = {}
    /\ \E tbl \in BOOLEAN, recs \in SUBSET Recs, idx \in BOOLEAN :
         LET flag == IF tbl THEN "true" ELSE "absent"
         IN /\ resources = [id \in {R1} |->
                  [url_type |-> "upload", package_id |-> P1, datastore_active |-> flag]]
            /\ catalog = {[name |-> TableMetadata, alias_of |-> Null]}
                         \cup (IF tbl THEN {[name |-> R1, alias_of |-> Null]} ELSE {})
            /\ rows = IF tbl THEN [id \in {R1} |-> recs] ELSE << >>
            /\ private_tables = IF tbl /\ ~config.legacy_mode THEN {R1} ELSE {}
            /\ solr = IF idx THEN [id \in {R1} |-> flag] ELSE << >>
    /\ other_extra = "old"
    /\ pc = [p \in Procs |-> "start"]
    /\ resource_seen = "absent"
    /\ extras_seen = [p \in Procs |-> NoExtras]

\* request p moves on to position to
Goto(p, to) == pc' = [pc EXCEPT ![p] = to]

\* datastore_create, line 137: the resource object is read
conc_create_get_resource ==
    /\ pc["create"] = "start"
    /\ resource_seen' = ActiveOf(Stores, R1)
    /\ Goto("create", "db")
    /\ UNCHANGED <<resources, packages, catalog, rows, private_tables, solr,
                   datapusher_jobs, config, acl, other_extra, extras_seen>>

\* datastore_create, lines 138-143: db.create
conc_create_db ==
    /\ pc["create"] = "db"
    /\ Store(db_create(Stores, R1, NoAliases, NoRecords,
                       ~config.legacy_mode /\ packages[resources[R1].package_id].private))
    /\ Goto("create", "flag")
    /\ UNCHANGED <<other_extra, resource_seen, extras_seen>>

\* datastore_create, line 148: the flag of the resource object read before
conc_create_flag ==
    /\ pc["create"] = "flag"
    /\ Goto("create", IF create_sets_flag(resource_seen) THEN "sync_read" ELSE "done")
    /\ UNCHANGED <<resources, packages, catalog, rows, private_tables, solr,
                   datapusher_jobs, config, acl, other_extra, resource_seen,
                   extras_seen>>

\* datastore_delete, lines 339-348: the existence check
conc_delete_exists ==
    /\ pc["delete"] = "start"
    /\ Goto("delete", IF res_exists(Stores, R1) THEN "db" ELSE "not_found")
    /\ UNCHANGED <<resources, packages, catalog, rows, private_tables, solr,
                   datapusher_jobs, config, acl, other_extra, resource_seen,
                   extras_seen>>

\* datastore_delete, line 350: db.delete
conc_delete_db ==
    /\ pc["delete"] = "db"
    /\ Store(db_delete(Stores, R1, NoFilters))
    /\ Goto("delete", "flag")
    /\ UNCHANGED <<other_extra, resource_seen, extras_seen>>

\* datastore_delete, lines 354-357: the resource is read and its flag tested
conc_delete_flag ==
    /\ pc["delete"] = "flag"
    /\ Goto("delete", IF delete_resets_flag(NoFilters, ActiveOf(Stores, R1))
                      THEN "sync_read" ELSE "done")
    /\ UNCHANGED <<resources, packages, catalog, rows, private_tables, solr,
                   datapusher_jobs, config, acl, other_extra, resource_seen,
                   extras_seen>>

\* the flag a request hands to set_datastore_active_flag
FlagOf(p) == IF p = "create" THEN "true" ELSE "false"

\* set_datastore_active_flag, lines 571-577: the extras are read
conc_sync_read(p) ==
    /\ pc[p] = "sync_read"
    /\ extras_seen' = [extras_seen EXCEPT
                         ![p] = [datastore_active |-> ActiveOf(Stores, R1),
                                 other |-> other_extra]]
    /\ Goto(p, "sync_write")
    /\ UNCHANGED <<resources, packages, catalog, rows, private_tables, solr,
                   datapusher_jobs, config, acl, other_extra, resource_seen>>

\* set_datastore_active_flag, lines 580-587: the extras read are patched,
\* written back as a whole and committed
conc_sync_write(p) ==
    /\ pc[p] = "sync_write"
    /\ resources' = [resources EXCEPT ![R1].datastore_active = FlagOf(p)]
    /\ other_extra' = extras_seen[p].other
    /\ Goto(p, "sync_index")
    /\ UNCHANGED <<packages, catalog, rows, private_tables, solr,
                   datapusher_jobs, config, acl, resource_seen, extras_seen>>

\* set_datastore_active_flag, lines 591-606: the package document is patched
\* and indexed again if it holds the resource
conc_sync_index(p) ==
    /\ pc[p] = "sync_index"
    /\ solr' = IF R1 \in DOMAIN solr THEN [solr EXCEPT ![R1] = FlagOf(p)] ELSE solr
    /\ Goto(p, "done")
    /\ UNCHANGED <<resources, packages, catalog, rows, private_tables,
                   datapusher_jobs, config, acl, other_extra, resource_seen,
                   extras_seen>>

\* another writer commits a change to a different key of the extras of R1
conc_writer ==
    /\ pc["writer"] = "start"
    /\ other_extra' = "new"
    /\ Goto("writer", "done")
    /\ UNCHANGED <<resources, packages, catalog, rows, private_tables, solr,
                   datapusher_jobs, config, acl, resource_seen, extras_seen>>

ConcNext ==
    \/ conc_create_get_resource
    \/ conc_create_db
    \/ conc_create_flag
    \/ conc_delete_exists
    \/ conc_delete_db
    \/ conc_delete_flag
    \/ \E p \in {"create", "delete"} : conc_sync_read(p)
    \/ \E p \in {"create", "delete"} : conc_sync_write(p)
    \/ \E p \in {"create", "delete"} : conc_sync_index(p)
    \/ conc_writer

ConcSpec == ConcInit /\ [][ConcNext]_vars

\* ------------------------------------------------------------------- claims
\* C1: for a resource R without a physical table whose activation flag is not
\* true, a successful create({resource_id: R}) leaves datastore_active true,
\* and a successful delete({resource_id: R}) without filters after it leaves
\* the flag false
C1_FlagFollowsCreateAndDelete ==
    \A q \in CreateRequests :
        (/\ q.form = "id" /\ q.rid \in DOMAIN resources
         /\ ~IsTable(Stores, q.rid) /\ ActiveOf(Stores, q.rid) # "true")
        => LET r == create_result(Stores, q)
           IN r.outcome = "ok" =>
                /\ ActiveOf(r.st, q.rid) = "true"
                /\ \A d \in DeleteRequests :
                     (d.rid = q.rid /\ d.filters = NoFilters) =>
                        LET r2 == delete_result(r.st, d)
                        IN r2.outcome = "ok" => ActiveOf(r2.st, q.rid) = "false"

\* a resource that went through create and a delete without filters, and can
\* be created again
C1_Witness ==
    \E q \in CreateRequests :
        /\ q.form = "id" /\ q.rid \in DOMAIN resources
        /\ ~IsTable(Stores, q.rid) /\ ActiveOf(Stores, q.rid) = "false"
        /\ create_result(Stores, q).outcome = "ok"

\* C2: a delete request that supplies a filters mapping, whatever it holds,
\* removes rows only: the table persists, the activation flag is unchanged
\* and the Active-Flag Synchronizer is not invoked
C2_FilteredDeleteKeepsFlag ==
    \A d \in DeleteRequests :
        d.filters.kind = "dict" =>
            LET r == delete_result(Stores, d)
            IN r.outcome = "ok" =>
                 /\ IsTable(r.st, d.rid)
                 /\ r.st.resources = resources
                 /\ r.st.solr = solr
                 /\ \A i \in 1..Len(r.calls) : r.calls[i].fn # "Session.commit"

\* C3: after every completed request, for every resource R, datastore_active
\* is true if and only if the Metadata Catalog has a row with name = R and
\* alias_of null
C3_FlagMatchesCatalog ==
    \A R \in DOMAIN resources :
        (ActiveOf(Stores, R) = "true") <=> IsTable(Stores, R)

\* C4 as stated: a table created by create without force is not mutated by an
\* upsert or a delete without force; each valid one of an allowed caller ends
\* in the read-only validation error
C4_CreatedTableIsReadOnly ==
    \A q \in CreateRequests :
        (CanCreate(Stores, q) /\ ~q.force /\ ~q.url) =>
            LET r == create_result(Stores, q)
                id == IF q.form = "spec" THEN q.nid ELSE q.rid
            IN r.outcome = "ok" =>
                 /\ \A u \in UpsertRequests :
                        (u.rid = id /\ ~u.force /\ u.valid /\ check_access(id)) =>
                            /\ upsert_result(r.st, u).outcome = "read_only"
                            /\ upsert_result(r.st, u).st = r.st
                 /\ \A d \in DeleteRequests :
                        (/\ d.rid = id /\ ~d.force /\ d.valid
                         /\ d.filters.kind # "other" /\ check_access(id)) =>
                            /\ delete_result(r.st, d).outcome = "read_only"
                            /\ delete_result(r.st, d).st = r.st

\* C4: the table of a resource whose url_type is not 'datastore' is not
\* mutated by an upsert or a delete without force: the stores stay as they
\* are, the Table Engine is not called, and a valid request of an allowed
\* caller ends in the read-only validation error; the table create makes from
\* a resource specification has url_type 'datastore' and takes an upsert
\* without force
C4_ReadOnlyGate ==
    /\ \A rid \in DOMAIN resources :
        (resources[rid].url_type # "datastore" /\ IsTable(Stores, rid)) =>
            /\ \A u \in UpsertRequests : (u.rid = rid /\ ~u.force) =>
                 LET r == upsert_result(Stores, u)
                 IN /\ r.st = Stores
                    /\ \A i \in 1..Len(r.calls) : r.calls[i].fn # "db.upsert"
                    /\ (u.valid /\ check_access(rid)) => r.outcome = "read_only"
            /\ \A d \in DeleteRequests : (d.rid = rid /\ ~d.force) =>
                 LET r == delete_result(Stores, d)
                 IN /\ r.st = Stores
                    /\ \A i \in 1..Len(r.calls) : r.calls[i].fn # "db.delete"
                    /\ (d.valid /\ d.filters.kind # "other" /\ check_access(rid))
                          => r.outcome = "read_only"
    /\ \A q \in CreateRequests :
        (q.form = "spec" /\ ~q.url /\ CanCreate(Stores, q)) =>
            LET r == create_result(Stores, q)
            IN r.outcome = "ok" =>
                 \A u \in UpsertRequests :
                    (/\ u.rid = q.nid /\ ~u.force /\ u.valid /\ check_access(q.nid)
                     /\ u.method = "upsert" /\ ~u.records.bad)
                    => upsert_result(r.st, u).outcome = "ok"

\* a table that holds a record, of a resource with another url_type, and a
\* caller the Access Policy allows on it
C4_Witness ==
    \E rid \in DOMAIN resources :
        /\ resources[rid].url_type # "datastore"
        /\ IsTable(Stores, rid) /\ StRows(Stores, rid) # {}
        /\ check_access(rid)
        /\ \E d \in DeleteRequests :
             /\ d.rid = rid /\ ~d.force /\ d.valid /\ d.filters = NoFilters
             /\ delete_result(Stores, d).outcome = "read_only"

\* C5: search_sql ends every input of more than one statement in a validation
\* error before the Access Policy is asked and before the Table Engine is
\* called: neither check_access nor db.search_sql is reached
C5_MultiStatementRejectedFirst ==
    \A q \in SqlRequests :
        Statements(q.sql) > 1 =>
            LET r == search_sql_result(Stores, q)
            IN /\ r.outcome = "validation"
               /\ r.calls = << >>
               /\ r.st = Stores

\* a caller the Access Policy denies sends two statements and gets the
\* validation error
C5_Witness ==
    /\ ~check_access(NoName)
    /\ \E q \in SqlRequests :
         /\ Statements(q.sql) = 2
         /\ search_sql_result(Stores, q).outcome = "validation"

\* C6: every call search_sql makes to the Table Engine carries the read-only
\* connection string, also when the payload carries a connection_url: no
\* input makes it run on the write-role connection
C6_SearchSqlReadOnly ==
    \A q \in SqlRequests :
        LET r == search_sql_result(Stores, q)
        IN /\ \A i \in 1..Len(r.calls) : r.calls[i].conn # "write_url"
           /\ \A i \in 1..Len(r.calls) :
                r.calls[i].fn = "db.search_sql" => r.calls[i].conn = "read_url"

\* a payload that carries the write-role connection string reaches the Table
\* Engine, once a table exists
C6_Witness ==
    /\ \E R \in ResIds : IsTable(Stores, R)
    /\ \E q \in SqlRequests :
         LET r == search_sql_result(Stores, q)
         IN /\ q.payload_url = "write_url"
            /\ r.outcome = "ok"
            /\ \E i \in 1..Len(r.calls) : r.calls[i].fn = "db.search_sql"

\* C7 as stated: every read operation (search, search_sql, datastore_info)
\* queries the Metadata Catalog and calls the Table Engine with the read-only
\* connection string
C7_ReadsUseReadOnly ==
    /\ \A q \in SearchRequests :
         \A i \in 1..Len(search_result(Stores, q).calls) :
            search_result(Stores, q).calls[i].conn # "write_url"
    /\ \A q \in SqlRequests :
         \A i \in 1..Len(search_sql_result(Stores, q).calls) :
            search_sql_result(Stores, q).calls[i].conn # "write_url"
    /\ \A q \in InfoRequests :
         \A i \in 1..Len(info_result(Stores, q).calls) :
            info_result(Stores, q).calls[i].conn # "write_url"

\* C7: search_sql and datastore_info query the Metadata Catalog and call the
\* Table Engine with the read-only connection string; search, although a read
\* operation, selects the write-capable one like the mutating operations
\* (create, upsert, delete, make_private, make_public), which never select
\* the read-only one
C7_ConnectionOfEachOperation ==
    /\ \A q \in SqlRequests :
         \A i \in 1..Len(search_sql_result(Stores, q).calls) :
            search_sql_result(Stores, q).calls[i].conn \in {"-", "read_url"}
    /\ \A q \in InfoRequests :
         \A i \in 1..Len(info_result(Stores, q).calls) :
            info_result(Stores, q).calls[i].conn \in {"-", "read_url"}
    /\ \A q \in SearchRequests :
         LET r == search_result(Stores, q)
         IN /\ \A i \in 1..Len(r.calls) : r.calls[i].conn \in {"-", "write_url"}
            /\ q.valid => \E i \in 1..Len(r.calls) :
                            r.calls[i].fn = "_table_metadata" /\ r.calls[i].conn = "write_url"
            /\ r.outcome = "ok" => \E i \in 1..Len(r.calls) :
                            r.calls[i].fn = "db.search" /\ r.calls[i].conn = "write_url"
    /\ \A q \in CreateRequests :
         CanCreate(Stores, q) =>
            \A i \in 1..Len(create_result(Stores, q).calls) :
                create_result(Stores, q).calls[i].conn \in {"-", "write_url"}
    /\ \A q \in UpsertRequests :
         \A i \in 1..Len(upsert_result(Stores, q).calls) :
            upsert_result(Stores, q).calls[i].conn \in {"-", "write_url"}
    /\ \A q \in DeleteRequests :
         \A i \in 1..Len(delete_result(Stores, q).calls) :
            delete_result(Stores, q).calls[i].conn \in {"-", "write_url"}
    /\ \A q \in PrivacyRequests("make_private") \cup PrivacyRequests("make_public") :
         \A i \in 1..Len(privacy_result(Stores, q).calls) :
            privacy_result(Stores, q).calls[i].conn \in {"-", "write_url"}

\* a table both read paths reach: datastore_info counts its rows on the
\* read-only connection and search reads it on the write-capable one
C7_Witness ==
    \E R \in ResIds :
        LET ri == info_result(Stores, [rid |-> R])
            rs == search_result(Stores, [valid |-> TRUE, rid |-> R, filters |-> NoFilters])
        IN /\ ri.outcome = "ok" /\ rs.outcome = "ok"
           /\ \E i \in 1..Len(ri.calls) :
                ri.calls[i].fn = "db.execute" /\ ri.calls[i].conn = "read_url"
           /\ \E i \in 1..Len(rs.calls) :
                rs.calls[i].fn = "db.search" /\ rs.calls[i].conn = "write_url"

\* C8: when search is given an alias, the Access Policy is asked about the
\* real table id the alias points to, never about the alias name, and the
\* Table Engine search receives the real table id; a caller denied on the
\* real table is denied through the alias
C8_AliasCheckedAsRealTable ==
    \A row \in catalog :
        row.alias_of # Null =>
            \A q \in SearchRequests :
                (q.rid = row.name /\ q.valid) =>
                    LET r == search_result(Stores, q)
                    IN /\ \E i \in 1..Len(r.calls) :
                            /\ r.calls[i].fn = "check_access"
                            /\ r.calls[i].arg = row.alias_of
                       /\ \A i \in 1..Len(r.calls) :
                            r.calls[i].fn \in {"check_access", "db.search"}
                                => r.calls[i].arg = row.alias_of
                       /\ ~check_access(row.alias_of) => r.outcome = "not_authorized"
                       /\ r.outcome = "ok" =>
                            \E i \in 1..Len(r.calls) : r.calls[i].fn = "db.search"

\* an alias the Access Policy would allow by its name, of a table on which it
\* denies the caller
C8_Witness ==
    \E row \in catalog :
        /\ row.alias_of # Null
        /\ check_access(row.name) /\ ~check_access(row.alias_of)
        /\ search_result(Stores, [valid |-> TRUE, rid |-> row.name,
                                  filters |-> NoFilters]).outcome = "not_authorized"

\* C9: for every valid alias name A that create is given for resource R,
\* search with resource_id = A and search with resource_id = R (same other
\* parameters, same caller, same tables) end alike and return the same
\* records and the same total
C9_AliasSearchEqualsRealSearch ==
    \A q \in CreateRequests :
        (CanCreate(Stores, q) /\ q.aliases.given) =>
            LET r == create_result(Stores, q)
                R == IF q.form = "spec" THEN q.nid ELSE q.rid
            IN r.outcome = "ok" =>
                 \A A \in q.aliases.names : \A f \in FilterPool \ {BadFilters} :
                    LET viaA == search_result(r.st, [valid |-> TRUE, rid |-> A, filters |-> f])
                        viaR == search_result(r.st, [valid |-> TRUE, rid |-> R, filters |-> f])
                    IN /\ viaA.outcome = viaR.outcome
                       /\ viaA.result = viaR.result

\* a table that holds a record and has an alias; search by the alias returns
\* the record
C9_Witness ==
    \E row \in catalog :
        /\ row.alias_of # Null
        /\ StRows(Stores, row.alias_of) # {}
        /\ LET viaA == search_result(Stores, [valid |-> TRUE, rid |-> row.name,
                                              filters |-> NoFilters])
           IN viaA.outcome = "ok" /\ viaA.result.total > 0

\* C10 as stated: a valid upsert or delete of an allowed caller on a resource
\* id without a row in the Metadata Catalog ends in not-found, with or
\* without force
C10_AbsentAlwaysNotFound ==
    \A rid \in ReqIds :
        (CatalogRows(Stores, rid) = {} /\ check_access(rid)) =>
            /\ \A u \in UpsertRequests : (u.rid = rid /\ u.valid) =>
                    upsert_result(Stores, u).outcome = "not_found"
            /\ \A d \in DeleteRequests :
                    (d.rid = rid /\ d.valid /\ d.filters.kind # "other") =>
                        delete_result(Stores, d).outcome = "not_found"

\* C10: upsert and delete on a resource id without a row in the Metadata
\* Catalog never return a success result, never call the Table Engine's
\* upsert or delete and leave the stores as they are, with or without force;
\* a valid request of an allowed caller that passes the Read-Only Gate, or
\* sets force, ends in not-found
C10_AbsentNeverSucceeds ==
    \A rid \in ReqIds :
        CatalogRows(Stores, rid) = {} =>
            /\ \A u \in UpsertRequests : u.rid = rid =>
                 LET r == upsert_result(Stores, u)
                 IN /\ r.outcome # "ok"
                    /\ r.st = Stores
                    /\ \A i \in 1..Len(r.calls) : r.calls[i].fn # "db.upsert"
                    /\ (/\ u.valid /\ check_access(rid)
                        /\ (u.force \/ check_read_only(Stores, rid) = "ok"))
                       => r.outcome = "not_found"
            /\ \A d \in DeleteRequests : d.rid = rid =>
                 LET r == delete_result(Stores, d)
                 IN /\ r.outcome # "ok"
                    /\ r.st = Stores
                    /\ \A i \in 1..Len(r.calls) : r.calls[i].fn # "db.delete"
                    /\ (/\ d.valid /\ d.filters.kind # "other" /\ check_access(rid)
                        /\ (d.force \/ check_read_only(Stores, rid) = "ok"))
                       => r.outcome = "not_found"

\* a resource that passes the Read-Only Gate and whose table was dropped:
\* upsert without force ends in not-found
C10_Witness ==
    \E rid \in DOMAIN resources :
        /\ CatalogRows(Stores, rid) = {}
        /\ ActiveOf(Stores, rid) = "false"
        /\ check_read_only(Stores, rid) = "ok"
        /\ upsert_result(Stores, [valid |-> TRUE, rid |-> rid, force |-> FALSE,
                                  method |-> "upsert",
                                  records |-> NoRecords]).outcome = "not_found"

\* C11: make_private and make_public report not-found and never call the
\* Table Engine unless the resource is both in the Resource Registry and a
\* real (non-alias) table of the Metadata Catalog; a resource known to one of
\* the two only yields not-found and no privacy change
C11_PrivacyNeedsBothStores ==
    \A q \in PrivacyRequests("make_private") \cup PrivacyRequests("make_public") :
        (q.has_id /\ ~(q.rid \in DOMAIN resources /\ IsTable(Stores, q.rid))) =>
            LET r == privacy_result(Stores, q)
            IN /\ r.outcome = "not_found"
               /\ r.st = Stores
               /\ \A i \in 1..Len(r.calls) :
                    r.calls[i].fn \notin {"db.make_private", "db.make_public"}

\* a real table of the Metadata Catalog that the Resource Registry does not
\* know, a resource without a table, and a caller allowed on both
C11_Witness ==
    /\ \E rid \in ReqIds :
        /\ IsTable(Stores, rid) /\ rid \notin DOMAIN resources /\ check_access(rid)
        /\ privacy_result(Stores, [op |-> "make_private", has_id |-> TRUE,
                                   rid |-> rid]).outcome = "not_found"
    /\ \E rid \in DOMAIN resources :
        /\ ~IsTable(Stores, rid) /\ check_access(rid)
        /\ privacy_result(Stores, [op |-> "make_public", has_id |-> TRUE,
                                   rid |-> rid]).outcome = "not_found"

\* C12: a create request of an allowed caller that carries both resource and
\* resource_id, or neither, ends in a validation error; for every caller such
\* a request creates no resource, does not call the Table Engine and changes
\* no activation flag
C12_BothOrNeitherRejected ==
    \A q \in CreateRequests :
        q.form \in {"both", "neither"} =>
            LET r == create_result(Stores, q)
                key == IF q.form = "both" THEN q.rid ELSE P2
            IN /\ check_access(key) => r.outcome = "validation"
               /\ r.outcome \in {"validation", "not_authorized"}
               /\ r.st = Stores
               /\ \A i \in 1..Len(r.calls) :
                    r.calls[i].fn \notin {"resource_create", "db.create", "Session.commit"}

\* an allowed caller whose request with both would otherwise get a fresh
\* resource
C12_Witness ==
    \E q \in CreateRequests :
        /\ q.form = "both" /\ check_access(q.rid) /\ Fresh(Stores, q.nid)
        /\ create_result(Stores, q).outcome = "validation"

\* C13: create with a resource specification that carries a url creates the
\* resource, submits it to the Import Trigger exactly once and returns: in
\* that request the Table Engine create is not called, no Metadata Catalog
\* row is added and no activation flag is set
C13_UrlCreateOnlySubmits ==
    \A q \in CreateRequests :
        (q.form = "spec" /\ q.url /\ CanCreate(Stores, q)) =>
            LET r == create_result(Stores, q)
                submits == {i \in 1..Len(r.calls) : r.calls[i].fn = "datapusher_submit"}
                creates == {i \in 1..Len(r.calls) : r.calls[i].fn = "resource_create"}
            IN /\ \A i \in 1..Len(r.calls) :
                    r.calls[i].fn \notin {"db.create", "Session.commit"}
               /\ r.st.catalog = catalog
               /\ r.st.rows = rows
               /\ \A id \in DOMAIN r.st.resources :
                    ActiveOf(r.st, id) = ActiveOf(Stores, id)
               /\ (check_access(P2) /\ config.datapusher) => r.outcome = "ok"
               /\ r.outcome = "ok" =>
                    /\ q.nid \in DOMAIN r.st.resources
                    /\ Cardinality(creates) = 1
                    /\ submits = {Len(r.calls)}
                    /\ r.st.datapusher_jobs = datapusher_jobs \cup {q.nid}

\* a resource handed to the Import Trigger: it has no table and no flag
C13_Witness ==
    \E nid \in NewIds :
        /\ nid \in datapusher_jobs
        /\ nid \in DOMAIN resources
        /\ CatalogRows(Stores, nid) = {}
        /\ ActiveOf(Stores, nid) = "absent"

\* C14: a caller the Access Policy denies learns nothing about the existence
\* of a table: for upsert, delete, search, make_private and make_public the
\* request ends in the authorization error both with the table in the
\* Metadata Catalog and with the table dropped from it
C14_DeniedCallerSeesNoExistence ==
    \A rid \in DOMAIN resources :
        (IsTable(Stores, rid) /\ ~check_access(rid)) =>
            LET without == db_delete(Stores, rid, NoFilters)
            IN /\ \A q \in UpsertRequests : (q.rid = rid /\ q.valid) =>
                    /\ upsert_result(Stores, q).outcome = "not_authorized"
                    /\ upsert_result(without, q).outcome = "not_authorized"
               /\ \A q \in DeleteRequests :
                    (q.rid = rid /\ q.valid /\ q.filters.kind # "other") =>
                        /\ delete_result(Stores, q).outcome = "not_authorized"
                        /\ delete_result(without, q).outcome = "not_authorized"
               /\ \A q \in SearchRequests : (q.rid = rid /\ q.valid) =>
                    /\ search_result(Stores, q).outcome = "not_authorized"
                    /\ search_result(without, q).outcome = "not_authorized"
               /\ \A q \in PrivacyRequests("make_private") \cup PrivacyRequests("make_public") :
                    (q.rid = rid /\ q.has_id) =>
                        /\ privacy_result(Stores, q).outcome = "not_authorized"
                        /\ privacy_result(without, q).outcome = "not_authorized"

\* C17: the Read-Only Gate decides by provenance alone: for a resource whose
\* url_type is not 'datastore', create by resource_id, upsert and delete
\* without force (valid requests of an allowed caller) end in the read-only
\* validation error before any Metadata Catalog lookup or Table Engine call;
\* with force the gate is skipped and the request goes on to the Table Engine
C17_GateByProvenance ==
    \A rid \in DOMAIN resources :
        (resources[rid].url_type # "datastore" /\ check_access(rid)) =>
            /\ \A q \in CreateRequests : (q.form = "id" /\ q.rid = rid /\ q.valid) =>
                 LET r == create_result(Stores, q)
                 IN IF ~q.force
                    THEN /\ r.outcome = "read_only" /\ r.st = Stores
                         /\ \A i \in 1..Len(r.calls) :
                              r.calls[i].fn \notin {"_table_metadata", "db.create"}
                    ELSE /\ r.outcome # "read_only"
                         /\ \A i \in 1..Len(r.calls) : r.calls[i].fn # "resource_show"
                         /\ (\A a \in q.aliases.names : is_valid_table_name(a)) =>
                              \E i \in 1..Len(r.calls) : r.calls[i].fn = "db.create"
            /\ \A q \in UpsertRequests : (q.rid = rid /\ q.valid) =>
                 LET r == upsert_result(Stores, q)
                 IN IF ~q.force
                    THEN /\ r.outcome = "read_only" /\ r.st = Stores
                         /\ \A i \in 1..Len(r.calls) :
                              r.calls[i].fn \notin {"_table_metadata", "db.upsert"}
                    ELSE /\ r.outcome # "read_only"
                         /\ \A i \in 1..Len(r.calls) : r.calls[i].fn # "resource_show"
                         /\ \E i \in 1..Len(r.calls) : r.calls[i].fn = "_table_metadata"
                         /\ IsTable(Stores, rid) =>
                              \E i \in 1..Len(r.calls) : r.calls[i].fn = "db.upsert"
            /\ \A q \in DeleteRequests :
                 (q.rid = rid /\ q.valid /\ q.filters.kind # "other") =>
                 LET r == delete_result(Stores, q)
                 IN IF ~q.force
                    THEN /\ r.outcome = "read_only" /\ r.st = Stores
                         /\ \A i \in 1..Len(r.calls) :
                              r.calls[i].fn \notin {"_table_metadata", "db.delete"}
                    ELSE /\ r.outcome # "read_only"
                         /\ \A i \in 1..Len(r.calls) : r.calls[i].fn # "resource_show"
                         /\ \E i \in 1..Len(r.calls) : r.calls[i].fn = "_table_metadata"
                         /\ IsTable(Stores, rid) =>
                              \E i \in 1..Len(r.calls) : r.calls[i].fn = "db.delete"

\* a resource of another url_type whose table exists and is private: create
\* by id with force is taken, without force it is not
C17_Witness ==
    \E q \in CreateRequests :
        /\ q.form = "id" /\ q.rid \in DOMAIN resources
        /\ resources[q.rid].url_type # "datastore"
        /\ q.rid \in private_tables
        /\ create_result(Stores, q).outcome = "ok"
        /\ create_result(Stores, [q EXCEPT !.force = FALSE]).outcome = "read_only"

\* C18: upsert and delete called with an alias name as resource_id never
\* mutate the real table the alias points to and never reach the Table
\* Engine, with or without force; a valid request of an allowed caller ends
\* in not-found
C18_AliasIsNoTarget ==
    \A row \in catalog :
        row.alias_of # Null =>
            /\ \A q \in UpsertRequests : q.rid = row.name =>
                 LET r == upsert_result(Stores, q)
                 IN /\ r.st = Stores
                    /\ \A i \in 1..Len(r.calls) : r.calls[i].fn # "db.upsert"
                    /\ (q.valid /\ check_access(row.name)) => r.outcome = "not_found"
            /\ \A q \in DeleteRequests : q.rid = row.name =>
                 LET r == delete_result(Stores, q)
                 IN /\ r.st = Stores
                    /\ \A i \in 1..Len(r.calls) : r.calls[i].fn # "db.delete"
                    /\ (q.valid /\ q.filters.kind # "other" /\ check_access(row.name))
                          => r.outcome = "not_found"

\* an alias of a table that holds a record, a caller allowed on both names:
\* a delete by the alias with force ends in not-found
C18_Witness ==
    \E row \in catalog :
        /\ row.alias_of # Null
        /\ StRows(Stores, row.alias_of) # {}
        /\ check_access(row.name) /\ check_access(row.alias_of)
        /\ delete_result(Stores, [valid |-> TRUE, rid |-> row.name, force |-> TRUE,
                                  filters |-> NoFilters,
                                  commit_ok |-> TRUE]).outcome = "not_found"

\* C19: in every request each call to the Table Engine (create, upsert,
\* delete, search, search_sql, make_private, make_public) comes after an
\* Access Policy evaluation of the same request that did not deny; the one
\* exception is search on the reserved identifier _table_metadata, which
\* reaches the Table Engine without any Access Policy evaluation
C19_EngineAfterAccessCheck ==
    LET Engine == {"db.create", "db.upsert", "db.delete", "db.search",
                   "db.search_sql", "db.make_private", "db.make_public"}
        Guarded(calls) ==
            \A i \in 1..Len(calls) :
                calls[i].fn \in Engine =>
                    \E j \in 1..(i - 1) :
                        calls[j].fn = "check_access" /\ check_access(calls[j].arg)
    IN /\ \A q \in CreateRequests :
            CanCreate(Stores, q) => Guarded(create_result(Stores, q).calls)
       /\ \A q \in UpsertRequests : Guarded(upsert_result(Stores, q).calls)
       /\ \A q \in DeleteRequests : Guarded(delete_result(Stores, q).calls)
       /\ \A q \in SqlRequests : Guarded(search_sql_result(Stores, q).calls)
       /\ \A q \in PrivacyRequests("make_private") \cup PrivacyRequests("make_public") :
            Guarded(privacy_result(Stores, q).calls)
       /\ \A q \in SearchRequests :
            LET r == search_result(Stores, q)
            IN IF q.rid = TableMetadata
               THEN /\ \A i \in 1..Len(r.calls) : r.calls[i].fn # "check_access"
                    /\ q.valid => \E i \in 1..Len(r.calls) : r.calls[i].fn = "db.search"
               ELSE Guarded(r.calls)

\* a table that holds a record and that the caller is denied on: search on
\* it is refused, search on _table_metadata is served
C19_Witness ==
    \E rid \in ResIds :
        /\ StRows(Stores, rid) # {}
        /\ ~check_access(rid)
        /\ search_result(Stores, [valid |-> TRUE, rid |-> rid,
                                  filters |-> NoFilters]).outcome = "not_authorized"
        /\ search_result(Stores, [valid |-> TRUE, rid |-> TableMetadata,
                                  filters |-> NoFilters]).outcome = "ok"

\* C20: whenever create ends in a validation error the stores are as they
\* were before the request: no resource added or changed, no table or alias
\* created, no activation flag changed
C20_ValidationErrorLeavesStores ==
    \A q \in CreateRequests :
        CanCreate(Stores, q) =>
            LET r == create_result(Stores, q)
            IN r.outcome \in {"validation", "read_only"} => r.st = Stores

\* C15: for every interleaving of a create and a filter-less delete on the
\* same resource R, once both have completed without error, datastore_active
\* of R is true if and only if the table of R is in the Metadata Catalog
C15_FlagMatchesCatalogAfterRace ==
    (pc["create"] = "done" /\ pc["delete"] = "done") =>
        ((ActiveOf(Stores, R1) = "true") <=> IsTable(Stores, R1))

\* C16: a change another writer has committed to a different key of the
\* extras is still there after the Active-Flag Synchronizer commits: the
\* synchronizer writes the datastore_active key only
C16_OtherExtrasKeyKept ==
    pc["writer"] = "done" => other_extra = "new"

\* C21: when the metadata commit inside the Active-Flag Synchronizer fails,
\* the create or delete request fails, the table mutation it made before
\* stays (the Table Engine stores are those of the same request with a
\* commit that succeeds), the activation flag keeps its old value, and the
\* Search Index is neither queried nor re-indexed
CalledFns(calls) == {calls[i].fn : i \in DOMAIN calls}

C21_FailedCommit(r0, r, rid) ==
    "Session.commit" \in CalledFns(r0.calls) =>
        /\ r0.outcome = "ok"
        /\ r.outcome = "commit_failed"
        /\ r.st.catalog = r0.st.catalog
        /\ r.st.rows = r0.st.rows
        /\ r.st.private_tables = r0.st.private_tables
        /\ r.st.resources[rid].datastore_active # r0.st.resources[rid].datastore_active
        /\ r.st.resources[rid].datastore_active =
              (IF rid \in DOMAIN resources THEN resources[rid].datastore_active
               ELSE "absent")
        /\ CalledFns(r.calls) \cap {"solr.query", "index_package"} = {}
        /\ \A x \in DOMAIN r.st.solr :
              r.st.solr[x] = (IF x \in DOMAIN solr THEN solr[x] ELSE "absent")

C21_CommitFailureNotSwallowed ==
    /\ \A q \in CreateRequests :
          CanCreate(Stores, q) =>
             C21_FailedCommit(create_result(Stores, q),
                              create_result(Stores, CommitFails(q)),
                              IF q.form = "spec" THEN q.nid ELSE q.rid)
    /\ \A q \in DeleteRequests :
          C21_FailedCommit(delete_result(Stores, q),
                           delete_result(Stores, CommitFails(q)), q.rid)

\* a create whose commit failed has happened: the table of R1 is in the
\* catalog, R1 was never marked active, and a delete whose commit fails is
\* possible as well
C21_Witness ==
    /\ IsTable(Stores, R1)
    /\ resources[R1].datastore_active = "absent"
    /\ solr[R1] = "absent"
    /\ \E q \in CreateRequests :
          create_result(Stores, CommitFails(q)).outcome = "commit_failed"

\* C22: in the Active-Flag Synchronizer the Search Index is queried and
\* re-indexed only after the metadata commit; when the index holds the
\* resource in the document of its package, the datastore_active of that
\* sub-document becomes the target value and the document is re-indexed
\* exactly once; when it does not (no document found, or a document without
\* the resource), nothing is indexed, the index is as it was, and the call
\* succeeds with the registry flag set to the target value
CallsOf(calls, fn) == {i \in DOMAIN calls : calls[i].fn = fn}

C22_IndexAfterCommit ==
    \A rid \in DOMAIN resources : \A flag \in {"true", "false"} :
        LET s == set_datastore_active_flag(Stores, rid, flag, TRUE)
            commits == CallsOf(s.calls, "Session.commit")
            queries == CallsOf(s.calls, "solr.query")
            indexings == CallsOf(s.calls, "index_package")
        IN /\ s.ok
           /\ Cardinality(commits) = 1
           /\ \A c \in commits : \A i \in queries \cup indexings : c < i
           /\ \A x \in queries : \A i \in indexings : x < i
           /\ s.st.resources[rid].datastore_active = flag
           /\ DOMAIN s.st.solr = DOMAIN solr
           /\ \A x \in DOMAIN solr \ {rid} : s.st.solr[x] = solr[x]
           /\ IF rid \in DOMAIN solr
              THEN /\ Cardinality(indexings) = 1
                   /\ \A i \in indexings :
                         s.calls[i].arg = resources[rid].package_id
                   /\ s.st.solr[rid] = flag
              ELSE /\ indexings = {}
                   /\ s.st.solr = solr

\* the synchronizer has run for a resource the index holds (R1: both copies
\* of the flag are true) and for one it does not hold (the new resource:
\* flag true in the registry, nothing in the index)
C22_Witness ==
    /\ resources[R1].datastore_active = "true"
    /\ solr[R1] = "true"
    /\ \E nid \in NewIds :
          /\ nid \in DOMAIN resources
          /\ nid \notin DOMAIN solr
          /\ resources[nid].datastore_active = "true"

\* C23: with the read/write split configured, a create for a resource whose
\* package is private hands private = true to every db.create it makes, and
\* once db.create has succeeded the table is among the private tables; the
\* result a create returns after db.create carries no private key (nor id,
\* nor connection_url)
C23_PrivatePackageTableIsPrivate ==
    \A q \in CreateRequests :
        CanCreate(Stores, q) =>
            LET r == create_result(Stores, q)
                rid == IF q.form = "spec" THEN q.nid ELSE q.rid
                creates == CallsOf(r.calls, "db.create")
                owned == /\ rid \in DOMAIN r.st.resources
                         /\ packages[r.st.resources[rid].package_id].private
            IN /\ (~config.legacy_mode /\ owned) =>
                    /\ \A i \in creates : r.calls[i].act = "private"
                    /\ (creates # {} /\ IsTable(r.st, rid) /\ ~IsTable(Stores, rid))
                          => rid \in r.st.private_tables
                    /\ (creates # {} /\ r.outcome = "ok")
                          => rid \in r.st.private_tables
               /\ (creates # {} /\ r.outcome = "ok") =>
                    r.result.keys \cap {"id", "private", "connection_url"} = {}

\* the table of R1, whose package is private, was created under the
\* read/write split and is private, and a further create on it hands
\* private = true to db.create and returns a result without the marker
C23_Witness ==
    /\ ~config.legacy_mode
    /\ packages[resources[R1].package_id].private
    /\ IsTable(Stores, R1)
    /\ R1 \in private_tables
    /\ \E q \in CreateRequests :
          LET r == create_result(Stores, q)
          IN /\ q.form = "id" /\ q.rid = R1 /\ r.outcome = "ok"
             /\ \E i \in DOMAIN r.calls :
                   r.calls[i].fn = "db.create" /\ r.calls[i].act = "private"
             /\ "private" \in db_create_returns(create_payload(create_private(Stores, R1)))
             /\ "private" \notin r.result.keys
             /\ "resource_id" \in r.result.keys

====
